---- MODULE Spec2Model ----
(***************************************************************************)
(* The job-completion waiter of the LeapOCR Go SDK:                        *)
(* SDK.WaitUntilDoneWithOptions and its helpers.                           *)
(*                                                                         *)
(* The repository holds two revisions of the waiter, src/waiter.go (the    *)
(* loop written inline) and src/unnamed/part_000 (the same loop split into *)
(* helpers).  They differ in where attempts++ stands, in the spelling of   *)
(* the cancelled lifecycle state and in the error texts.  The variable     *)
(* `variant` says which revision runs; both are reachable.                 *)
(*                                                                         *)
(* Durations are counted in milliseconds (time.Duration counts             *)
(* nanoseconds; every duration used here is a whole number of ms).         *)
(* Multiplier is a float64 in the code and a number of tenths here         *)
(* (15 stands for 1.5).                                                    *)
(***************************************************************************)
EXTENDS Integers, Sequences, FiniteSets, TLC

VARIABLES
    variant,        \* which revision of the waiter runs
    optsIn,         \* the WaitOptions the caller passed
    opts,           \* opts after the defaulting pass
    pc,             \* position of the wait call
    attempts,       \* local variable attempts
    currentDelay,   \* local variable currentDelay
    cancelled,      \* ctx.Done() is closed
    cancelPc,       \* position of the wait call when ctx was cancelled
    polled,         \* outcome of every status-fetch that has returned
    statusCalls,    \* number of getJobStatus calls issued
    resultCalls,    \* number of getJobResult calls issued
    sleeps,         \* the sleeps requested: base delay and duration
    fetchOut,       \* what the last collaborator call returned
    status,         \* local variable status: the JobStatusInfo of this iteration
    ret,            \* what the wait call returned
    upPc,           \* position of the ProcessFile call
    upFile,         \* the file and the configuration ProcessFile was given
    uploadResp,     \* response of initiateDirectUpload
    completedParts, \* local variable completedParts of uploadFileParts
    requests,       \* requests ProcessFile has sent, in order
    upRet           \* what ProcessFile returned

waitVars == <<variant, optsIn, opts, pc, attempts, currentDelay, cancelled,
              cancelPc, polled, statusCalls, resultCalls, sleeps, fetchOut,
              status, ret>>

uploadVars == <<upPc, upFile, uploadResp, completedParts, requests, upRet>>

vars == <<waitVars, uploadVars>>

----------------------------------------------------------------------------
(* Bounds of the model *)

\* status-fetch calls after which an unlimited wait call is no longer followed
MaxPolls == 3

\* time.Second, in the model's unit
Second == 1000

Variants == {"waiter.go", "part_000"}

\* the WaitOptions a caller passes (0 is the zero value of a field)
InitialDelays == {0, 100, 40 * Second}
MaxDelays     == {0, 150}
Multipliers   == {0, 20, -10}
MaxJitters    == {0, 200, -1}
AttemptLimits == {0, 1, 2, MaxPolls}

\* the lifecycle states the service reports ("" is an absent status)
Statuses == {"completed", "failed", "error", "canceled", "cancelled",
             "processing", ""}

\* CreditsUsed of a job result response
CreditsUsed == {0, 7}

TheJobID == "job-1"

----------------------------------------------------------------------------
(* errors.go *)

ErrorTypeAPIError == "api_error"
ErrorTypeTimeout  == "timeout"
ErrorTypeJobError == "job_error"

NoCause == "nil"
CtxErr  == "ctx.Err()"
NetErr  == "transport error"

NewSDKError(errorType, message, cause) ==
    [Type |-> errorType, Message |-> message, Cause |-> cause]

\* the nil error
NilErr == [Type |-> "nil", Message |-> "", Cause |-> NoCause]

IsTimeout(e) == e.Type = ErrorTypeTimeout

ErrorTypeHTTPError == "http_error"

\* SDKError.StatusCode: NewSDKError leaves it at its zero value
StatusCode(e) == 0

\* IsRetryable answering false for timeouts
IsRetryable_NotTimeouts(e) ==
    IF e.Type = ErrorTypeHTTPError
    THEN StatusCode(e) >= 500 \/ StatusCode(e) = 408 \/ StatusCode(e) = 429
    ELSE FALSE

IsRetryable(e) ==
    IF e.Type \in {ErrorTypeTimeout, ErrorTypeHTTPError}
    THEN IF e.Type = ErrorTypeHTTPError
         THEN StatusCode(e) >= 500 \/ StatusCode(e) = 408 \/ StatusCode(e) = 429
         ELSE TRUE
    ELSE FALSE

\* the nil *OCRResult
NilResult == [JobID |-> "", Status |-> "nil", Credits |-> 0]

\* handleAPIError classifying a collaborator error as a timeout
handleAPIError_AsTimeout(err, message) ==
    NewSDKError(ErrorTypeTimeout, message, err)

handleAPIError(err, message) ==
    NewSDKError(ErrorTypeAPIError, message, err)

----------------------------------------------------------------------------
(* The collaborators *)

\* What Execute() of the generated client can return for a request made
\* under ctx: a response, a transport error, or, once ctx is cancelled,
\* the context's error.
ExecuteErrors(ctxDone) == {NetErr} \cup (IF ctxDone THEN {CtxErr} ELSE {})

\* what a status response holds beside the lifecycle state
StatusDetails ==
    {[ProgressPercentage |-> 0, ProcessingTime |-> 0, ErrorMessage |-> ""],
     [ProgressPercentage |-> 50, ProcessingTime |-> 30,
      ErrorMessage |-> "out of memory"]}

\* the status responses of the service
StatusResponses ==
    {[Status |-> s, ProgressPercentage |-> d.ProgressPercentage,
      ProcessingTime |-> d.ProcessingTime, ErrorMessage |-> d.ErrorMessage] :
        s \in Statuses, d \in StatusDetails}

\* a status response with no field set
NoResponse ==
    [Status |-> "", ProgressPercentage |-> 0, ProcessingTime |-> 0,
     ErrorMessage |-> ""]

\* the nil *JobStatusInfo
NilStatus ==
    [Status |-> "nil", ID |-> "", Progress |-> 0, EstimatedTime |-> 0,
     Error |-> ""]

\* getJobStatus: the JobStatusInfo built from the response, or the wrapped
\* error.  A field absent from the response is the zero value in resp.
getJobStatus(resp, err) ==
    IF err # NoCause
    THEN [err |-> handleAPIError(err, "failed to get job status"),
          status |-> NilStatus]
    ELSE [err |-> NilErr,
          status |-> [Status |-> resp.Status, ID |-> TheJobID,
                      Progress |-> resp.ProgressPercentage,
                      EstimatedTime |-> resp.ProcessingTime,
                      Error |-> resp.ErrorMessage]]

\* getJobResult returning the result it had begun to build along with the error
getJobResult_ResultWithError(resp, err) ==
    IF err # NoCause
    THEN [err |-> handleAPIError(err, "failed to get job result"),
          result |-> [JobID |-> TheJobID, Status |-> "completed", Credits |-> 0]]
    ELSE [err |-> NilErr,
          result |-> [JobID |-> TheJobID, Status |-> "completed", Credits |-> resp]]

\* getJobResult: the OCRResult built from the response, or the wrapped error
getJobResult(resp, err) ==
    IF err # NoCause
    THEN [err |-> handleAPIError(err, "failed to get job result"),
          result |-> NilResult]
    ELSE [err |-> NilErr,
          result |-> [JobID |-> TheJobID, Status |-> "completed", Credits |-> resp]]

----------------------------------------------------------------------------
(* waiter.go *)

DefaultWaitOptions ==
    [InitialDelay |-> 1 * Second, MaxDelay |-> 30 * Second, Multiplier |-> 15,
     MaxJitter |-> 1 * Second, MaxAttempts |-> 0]

\* the defaulting pass with a default of 2 seconds for InitialDelay
applyWaitDefaults_OtherInitialDelay(o) ==
    [InitialDelay |-> IF o.InitialDelay = 0 THEN 2 * Second ELSE o.InitialDelay,
     MaxDelay     |-> IF o.MaxDelay = 0 THEN 30 * Second ELSE o.MaxDelay,
     Multiplier   |-> IF o.Multiplier = 0 THEN 15 ELSE o.Multiplier,
     MaxJitter    |-> IF o.MaxJitter = 0 THEN 1 * Second ELSE o.MaxJitter,
     MaxAttempts  |-> o.MaxAttempts]

\* the defaulting pass setting Multiplier without testing it for zero
applyWaitDefaults_OverwritesMultiplier(o) ==
    [InitialDelay |-> IF o.InitialDelay = 0 THEN 1 * Second ELSE o.InitialDelay,
     MaxDelay     |-> IF o.MaxDelay = 0 THEN 30 * Second ELSE o.MaxDelay,
     Multiplier   |-> 15,
     MaxJitter    |-> IF o.MaxJitter = 0 THEN 1 * Second ELSE o.MaxJitter,
     MaxAttempts  |-> o.MaxAttempts]

applyWaitDefaults(o) ==
    [InitialDelay |-> IF o.InitialDelay = 0 THEN 1 * Second ELSE o.InitialDelay,
     MaxDelay     |-> IF o.MaxDelay = 0 THEN 30 * Second ELSE o.MaxDelay,
     Multiplier   |-> IF o.Multiplier = 0 THEN 15 ELSE o.Multiplier,
     MaxJitter    |-> IF o.MaxJitter = 0 THEN 1 * Second ELSE o.MaxJitter,
     MaxAttempts  |-> o.MaxAttempts]

\* spelling used by the revision in its lifecycle state and error texts
Canceled(v) == IF v = "waiter.go" THEN "cancelled" ELSE "canceled"

\* checkMaxAttempts giving up one attempt early
checkMaxAttempts_OneEarly(n, maxAttempts) ==
    IF maxAttempts > 0 /\ n + 1 >= maxAttempts
    THEN NewSDKError(ErrorTypeTimeout, "maximum polling attempts exceeded", NoCause)
    ELSE NilErr

\* checkMaxAttempts comparing with > where the code has >=
checkMaxAttempts_OffByOne(n, maxAttempts) ==
    IF maxAttempts > 0 /\ n > maxAttempts
    THEN NewSDKError(ErrorTypeTimeout, "maximum polling attempts exceeded", NoCause)
    ELSE NilErr

\* checkMaxAttempts without the test that a limit is set
checkMaxAttempts_NoZeroGuard(n, maxAttempts) ==
    IF n >= maxAttempts
    THEN NewSDKError(ErrorTypeTimeout, "maximum polling attempts exceeded", NoCause)
    ELSE NilErr

checkMaxAttempts(n, maxAttempts) ==
    IF maxAttempts > 0 /\ n >= maxAttempts
    THEN NewSDKError(ErrorTypeTimeout, "maximum polling attempts exceeded", NoCause)
    ELSE NilErr

\* checkContext without the ctx.Done() case
checkContext_NoDoneCase(v, ctxDone) == NilErr

checkContext(v, ctxDone) ==
    IF ctxDone
    THEN NewSDKError(ErrorTypeTimeout,
                     "context " \o Canceled(v) \o " while waiting for completion",
                     CtxErr)
    ELSE NilErr

\* the switch taking a snapshot with an error text for a failed job
SwitchOperand_ErrorText(info) ==
    IF info.Error # "" THEN "failed" ELSE info.Status

\* the operand of the switch: status.Status
SwitchOperand(info) == info.Status

\* the switch without its "completed" case
StatusSwitch_NoCompletedCase(v, state) ==
    IF state \in {"failed", "error"} THEN "failed"
    ELSE IF state = Canceled(v) THEN "canceled"
    ELSE "continue"

\* the switch with "error" fallen into the "completed" case
StatusSwitch_ErrorAsCompleted(v, state) ==
    IF state \in {"completed", "error"} THEN "result"
    ELSE IF state = "failed" THEN "failed"
    ELSE IF state = Canceled(v) THEN "canceled"
    ELSE "continue"

\* the switch on status.Status: what the wait call does with a status
\*   "result"   fetch the result and return it
\*   "failed", "canceled"   return the job error
\*   "continue" go on to the backoff sleep
StatusSwitch(v, state) ==
    IF state = "completed" THEN "result"
    ELSE IF state \in {"failed", "error"} THEN "failed"
    ELSE IF state = Canceled(v) THEN "canceled"
    ELSE "continue"

JobFailed == NewSDKError(ErrorTypeJobError, "job failed", NoCause)

JobCanceled(v) ==
    NewSDKError(ErrorTypeJobError, "job was " \o Canceled(v), NoCause)

\* a draw from [0, maxJitter], the upper end included
Jitters_Inclusive(maxJitter) == {0, maxJitter}

\* the jitters rand draws from [0, maxJitter): the least and the greatest
Jitters(maxJitter) == {0, maxJitter - 1}

\* the cancelled sleep reported as a job error
SleepCanceled_AsJobError(v) ==
    NewSDKError(ErrorTypeJobError, "context " \o Canceled(v) \o " while waiting",
                CtxErr)

SleepCanceled(v) ==
    NewSDKError(ErrorTypeTimeout, "context " \o Canceled(v) \o " while waiting",
                CtxErr)

\* time.Duration(f): conversion of a float64 to an integer truncates to zero
Truncate(num, den) ==
    IF num >= 0 THEN num \div den ELSE -((-num) \div den)

\* calculateNextDelay without the clamp to maxDelay
calculateNextDelay_NoClamp(delay, multiplier, maxDelay) ==
    Truncate(delay * multiplier, 10)

\* calculateNextDelay without the multiplication: a constant delay
calculateNextDelay_NoGrowth(delay, multiplier, maxDelay) ==
    IF delay > maxDelay THEN maxDelay ELSE delay

calculateNextDelay(delay, multiplier, maxDelay) ==
    LET nextDelay == Truncate(delay * multiplier, 10)
    IN  IF nextDelay > maxDelay THEN maxDelay ELSE nextDelay

----------------------------------------------------------------------------
(* The wait call *)

\* WaitOptions{}, which WaitUntilDone passes to WaitUntilDoneWithOptions
ZeroWaitOptions ==
    [InitialDelay |-> 0, MaxDelay |-> 0, Multiplier |-> 0, MaxJitter |-> 0,
     MaxAttempts |-> 0]

WaitOptions ==
    [InitialDelay : InitialDelays, MaxDelay : MaxDelays,
     Multiplier : Multipliers, MaxJitter : MaxJitters,
     MaxAttempts : AttemptLimits]
    \cup {ZeroWaitOptions, DefaultWaitOptions}

\* no ProcessFile call runs
UploadIdle ==
    /\ upPc = "idle"
    /\ upFile = <<>>
    /\ uploadResp = <<>>
    /\ completedParts = <<>>
    /\ requests = <<>>
    /\ upRet = <<>>

NoFetch == [err |-> NilErr, result |-> NilResult]

Init ==
    /\ variant \in Variants
    /\ optsIn \in WaitOptions
    /\ opts = applyWaitDefaults(optsIn)
    /\ pc = "loop"
    /\ attempts = 0
    /\ currentDelay = opts.InitialDelay
    /\ cancelled \in BOOLEAN
    /\ cancelPc = IF cancelled THEN "before" ELSE "never"
    /\ polled = <<>>
    /\ statusCalls = 0
    /\ resultCalls = 0
    /\ sleeps = <<>>
    /\ fetchOut = NoFetch
    /\ status = NilStatus
    /\ ret = NoFetch
    /\ UploadIdle

Return(result, err) ==
    /\ pc' = "done"
    /\ ret' = [err |-> err, result |-> result]

\* the owner of ctx cancels it, or its deadline passes
Cancel ==
    /\ pc \notin {"done", "panic"}
    /\ ~cancelled
    /\ cancelled' = TRUE
    /\ cancelPc' = pc
    /\ UNCHANGED <<uploadVars, status, variant, optsIn, opts, pc, attempts, currentDelay, polled,
                   statusCalls, resultCalls, sleeps, fetchOut, ret>>

\* top of the loop: the max-attempts check.  waiter.go increments attempts
\* right after it, part_000 only after the context check.
CheckMaxAttempts ==
    /\ pc = "loop"
    /\ LET err == checkMaxAttempts(attempts, opts.MaxAttempts)
       IN  IF err # NilErr
           THEN /\ Return(NilResult, err)
                /\ UNCHANGED attempts
           ELSE /\ statusCalls < MaxPolls
                /\ pc' = "ctx"
                /\ attempts' = IF variant = "waiter.go" THEN attempts + 1
                               ELSE attempts
                /\ UNCHANGED ret
    /\ UNCHANGED <<uploadVars, status, variant, optsIn, opts, currentDelay, cancelled, cancelPc,
                   polled, statusCalls, resultCalls, sleeps, fetchOut>>

\* the context check; when it passes the status request is issued
CheckContext ==
    /\ pc = "ctx"
    /\ LET err == checkContext(variant, cancelled)
       IN  IF err # NilErr
           THEN /\ Return(NilResult, err)
                /\ UNCHANGED <<attempts, statusCalls>>
           ELSE /\ pc' = "status"
                /\ attempts' = IF variant = "waiter.go" THEN attempts
                               ELSE attempts + 1
                /\ statusCalls' = statusCalls + 1
                /\ UNCHANGED ret
    /\ UNCHANGED <<uploadVars, status, variant, optsIn, opts, currentDelay, cancelled, cancelPc,
                   polled, resultCalls, sleeps, fetchOut>>

\* getJobStatus returns out; the switch on the status follows
StatusReturns(out) ==
    /\ pc = "status"
    /\ fetchOut' = [err |-> out.err, result |-> NilResult]
    /\ status' = out.status
    /\ polled' = Append(polled, IF out.err # NilErr THEN "#error"
                                ELSE out.status.Status)
    /\ IF out.err # NilErr
       THEN /\ Return(NilResult, out.err)
            /\ UNCHANGED <<resultCalls, sleeps>>
       ELSE LET todo == StatusSwitch(variant, SwitchOperand(out.status))
            IN  IF todo = "result"
                THEN /\ pc' = "result"
                     /\ resultCalls' = resultCalls + 1
                     /\ UNCHANGED <<ret, sleeps>>
                ELSE IF todo = "failed"
                THEN /\ Return(NilResult, JobFailed)
                     /\ UNCHANGED <<resultCalls, sleeps>>
                ELSE IF todo = "canceled"
                THEN /\ Return(NilResult, JobCanceled(variant))
                     /\ UNCHANGED <<resultCalls, sleeps>>
                ELSE /\ pc' = "backoff"
                     /\ UNCHANGED <<ret, resultCalls, sleeps>>
    /\ UNCHANGED <<uploadVars, variant, optsIn, opts, attempts, currentDelay,
                   cancelled, cancelPc, statusCalls>>

StatusFetch ==
    \/ \E r \in StatusResponses : StatusReturns(getJobStatus(r, NoCause))
    \/ \E e \in ExecuteErrors(cancelled) :
          StatusReturns(getJobStatus(NoResponse, e))

\* the wait call returning the result without the error of getJobResult
ResultReturns_DropsError(out) ==
    /\ pc = "result"
    /\ fetchOut' = out
    /\ Return(out.result, NilErr)
    /\ UNCHANGED <<uploadVars, status, variant, optsIn, opts, attempts, currentDelay, cancelled,
                   cancelPc, polled, statusCalls, resultCalls, sleeps>>

\* the wait call checking ctx once more after getJobResult has returned
ResultReturns_ChecksContext(out) ==
    /\ pc = "result"
    /\ fetchOut' = out
    /\ IF cancelled THEN Return(NilResult, checkContext(variant, cancelled))
       ELSE Return(out.result, out.err)
    /\ UNCHANGED <<uploadVars, status, variant, optsIn, opts, attempts, currentDelay, cancelled,
                   cancelPc, polled, statusCalls, resultCalls, sleeps>>

\* getJobResult returns out, which the wait call returns
ResultReturns(out) ==
    /\ pc = "result"
    /\ fetchOut' = out
    /\ Return(out.result, out.err)
    /\ UNCHANGED <<uploadVars, status, variant, optsIn, opts, attempts, currentDelay, cancelled,
                   cancelPc, polled, statusCalls, resultCalls, sleeps>>

ResultFetch ==
    \/ \E c \in CreditsUsed : ResultReturns(getJobResult(c, NoCause))
    \/ \E e \in ExecuteErrors(cancelled) : ResultReturns(getJobResult(0, e))

\* the backoff step going back to the top of the loop without a sleep
WaitWithBackoff_SkipsSleep ==
    /\ pc = "backoff"
    /\ pc' = "loop"
    /\ UNCHANGED <<uploadVars, status, variant, optsIn, opts, attempts, currentDelay, cancelled,
                   cancelPc, polled, statusCalls, resultCalls, sleeps, fetchOut,
                   ret>>

\* the backoff step draws the jitter and enters the select of the sleep;
\* rand panics when MaxJitter is not positive
WaitWithBackoff ==
    /\ pc = "backoff"
    /\ IF opts.MaxJitter <= 0
       THEN /\ pc' = "panic"
            /\ UNCHANGED sleeps
       ELSE \E jitter \in Jitters(opts.MaxJitter) :
              /\ pc' = "sleep"
              /\ sleeps' = Append(sleeps,
                     [delay |-> currentDelay,
                      sleepDuration |-> currentDelay + jitter])
    /\ UNCHANGED <<uploadVars, status, variant, optsIn, opts, attempts, currentDelay, cancelled,
                   cancelPc, polled, statusCalls, resultCalls, fetchOut, ret>>

SleepDuration == sleeps[Len(sleeps)].sleepDuration

\* the select of the backoff sleep takes the ctx.Done() case
SleepCancelled ==
    /\ pc = "sleep"
    /\ cancelled
    /\ Return(NilResult, SleepCanceled(variant))
    /\ UNCHANGED <<uploadVars, status, variant, optsIn, opts, attempts, currentDelay, cancelled,
                   cancelPc, polled, statusCalls, resultCalls, sleeps, fetchOut>>

\* a sleep that does not watch ctx.Done(): time.Sleep(sleepDuration)
SleepEnds_Uncancellable ==
    /\ pc = "sleep"
    /\ currentDelay' = calculateNextDelay(currentDelay, opts.Multiplier, opts.MaxDelay)
    /\ pc' = "loop"
    /\ status' = NilStatus
    /\ UNCHANGED <<uploadVars, variant, optsIn, opts, attempts, cancelled,
                   cancelPc, polled, statusCalls, resultCalls, sleeps, fetchOut,
                   ret>>

\* the select takes the timer case: the timer fired before ctx was cancelled,
\* or both were ready when the select was entered
SleepEnds ==
    /\ pc = "sleep"
    /\ \/ ~cancelled
       \/ cancelPc # "sleep" /\ SleepDuration <= 0
    /\ currentDelay' = calculateNextDelay(currentDelay, opts.Multiplier, opts.MaxDelay)
    /\ pc' = "loop"
    /\ status' = NilStatus
    /\ UNCHANGED <<uploadVars, variant, optsIn, opts, attempts, cancelled,
                   cancelPc, polled, statusCalls, resultCalls, sleeps, fetchOut,
                   ret>>

Next ==
    \/ Cancel
    \/ CheckMaxAttempts
    \/ CheckContext
    \/ StatusFetch
    \/ ResultFetch
    \/ WaitWithBackoff
    \/ SleepCancelled
    \/ SleepEnds

Spec == Init /\ [][Next]_vars

\* a step of the wait call itself (every action but Cancel)
WaitStep ==
    \/ CheckMaxAttempts
    \/ CheckContext
    \/ StatusFetch
    \/ ResultFetch
    \/ WaitWithBackoff
    \/ SleepCancelled
    \/ SleepEnds

\* The wait call runs on: its goroutine is scheduled, every status-fetch and
\* result-fetch returns, every sleep ends by its timer or by ctx.Done().
\* Nothing obliges the owner of ctx to cancel it.
FairSpec == Init /\ [][Next]_vars /\ WF_vars(WaitStep)

----------------------------------------------------------------------------
(* ProcessFile: the direct upload *)

\* parts in the response of initiateDirectUpload, at most
MaxParts == 2

\* len(fileContent) of a file that passes validation
FileSize == 10

MaxFileSizeBytes == 50 * 1024 * 1024

ErrorTypeValidationError == "validation_error"
ErrorTypeUploadError     == "upload_error"

\* the file, its name and the processing configuration of a call
Files ==
    [ValidName : BOOLEAN, ValidConfig : BOOLEAN,
     Size : {0, FileSize, MaxFileSizeBytes + 1}]

\* the parts of an initiate response: a part number, a presigned URL that
\* may be missing, and the first byte of the part
PartDescriptors ==
    [PartNumber : 1..MaxParts, UploadUrl : {"nil", "url"},
     StartByte : {0, FileSize}]

PartLists == UNION {[1..n -> PartDescriptors] : n \in 0..MaxParts}

UploadResponses == [JobId : {"nil", TheJobID}, Parts : PartLists]

\* the nil *UploadDirectUploadResponse
NilUploadResp == [JobId |-> "nil", Parts |-> <<>>]

\* what client.Do returns for the PUT of a part
PutResponses ==
    {[err |-> NetErr, StatusCode |-> 0, ETag |-> ""]}
    \cup [err : {NoCause}, StatusCode : {199, 200, 299, 300},
          ETag : {"\"e1\"", "e1", ""}]

\* the nil *Job and the Job ProcessFile returns
NilJob == [Status |-> "nil", ID |-> ""]

Job(jobID) == [Status |-> "processing", ID |-> jobID]

NoUploadReturn == [err |-> NilErr, job |-> NilJob]

\* the error a wrapped error is caused by, named by its message
CauseOf(err) == err.Message

validateAndReadFile(f) ==
    IF ~f.ValidName
    THEN NewSDKError(ErrorTypeValidationError, "invalid filename", NoCause)
    ELSE IF ~f.ValidConfig
    THEN NewSDKError(ErrorTypeValidationError,
                     "invalid processing configuration", NoCause)
    ELSE IF f.Size = 0
    THEN NewSDKError(ErrorTypeValidationError, "file is empty", NoCause)
    ELSE IF f.Size > MaxFileSizeBytes
    THEN NewSDKError(ErrorTypeValidationError,
                     "file size exceeds maximum allowed size", NoCause)
    ELSE NilErr

\* strings.Trim(etag, `"`)
TrimQuotes(etag) == IF etag = "\"e1\"" THEN "e1" ELSE etag

NoCompletedPart == [PartNumber |-> 0, Etag |-> ""]

\* uploadSinglePart: the completed part or the error, and whether the PUT
\* request was sent
uploadSinglePart(part, size, put) ==
    IF part.UploadUrl = "nil"
    THEN [err |-> NewSDKError(ErrorTypeUploadError,
                              "invalid part configuration", NoCause),
          completed |-> NoCompletedPart, sent |-> FALSE]
    ELSE IF part.StartByte >= size
    THEN [err |-> NewSDKError(ErrorTypeUploadError,
                              "start byte exceeds file size", NoCause),
          completed |-> NoCompletedPart, sent |-> FALSE]
    ELSE IF put.err # NoCause
    THEN [err |-> NewSDKError(ErrorTypeUploadError, "failed to upload chunk",
                              put.err),
          completed |-> NoCompletedPart, sent |-> TRUE]
    ELSE IF put.StatusCode < 200 \/ put.StatusCode >= 300
    THEN [err |-> NewSDKError(ErrorTypeUploadError,
                              "upload failed with status", NoCause),
          completed |-> NoCompletedPart, sent |-> TRUE]
    ELSE [err |-> NilErr,
          completed |-> [PartNumber |-> part.PartNumber,
                         Etag |-> TrimQuotes(put.ETag)],
          sent |-> TRUE]

\* no wait call runs
WaitIdle ==
    /\ variant = "part_000"
    /\ optsIn = ZeroWaitOptions
    /\ opts = DefaultWaitOptions
    /\ pc = "idle"
    /\ attempts = 0
    /\ currentDelay = 0
    /\ cancelled = FALSE
    /\ cancelPc = "never"
    /\ polled = <<>>
    /\ statusCalls = 0
    /\ resultCalls = 0
    /\ sleeps = <<>>
    /\ fetchOut = NoFetch
    /\ status = NilStatus
    /\ ret = NoFetch

UploadInit ==
    /\ WaitIdle
    /\ upPc = "validate"
    /\ upFile \in Files
    /\ uploadResp = NilUploadResp
    /\ completedParts = <<>>
    /\ requests = <<>>
    /\ upRet = NoUploadReturn

UploadReturn(job, err) ==
    /\ upPc' = "done"
    /\ upRet' = [err |-> err, job |-> job]

ValidateAndReadFile ==
    /\ upPc = "validate"
    /\ LET err == validateAndReadFile(upFile)
       IN  IF err # NilErr
           THEN UploadReturn(NilJob, err)
           ELSE /\ upPc' = "initiate"
                /\ UNCHANGED upRet
    /\ UNCHANGED <<waitVars, upFile, uploadResp, completedParts, requests>>

InitiateDirectUpload ==
    /\ upPc = "initiate"
    /\ \/ \E e \in ExecuteErrors(TRUE) :
            /\ requests' = Append(requests,
                   [part |-> 0, op |-> "initiate", ok |-> FALSE])
            /\ UploadReturn(NilJob,
                   handleAPIError(e, "failed to initiate file upload"))
            /\ UNCHANGED uploadResp
       \/ \E r \in UploadResponses :
            /\ requests' = Append(requests,
                   [part |-> 0, op |-> "initiate", ok |-> TRUE])
            /\ uploadResp' = r
            /\ upPc' = "parts"
            /\ UNCHANGED upRet
    /\ UNCHANGED <<waitVars, upFile, completedParts>>

\* uploadFileParts going on to the next part after a part has failed
UploadFileParts_SkipsFailedPart ==
    /\ upPc = "parts"
    /\ IF Len(uploadResp.Parts) = 0
       THEN /\ UploadReturn(NilJob,
                   NewSDKError(ErrorTypeUploadError, "failed to upload file",
                               "no upload parts provided"))
            /\ UNCHANGED <<completedParts, requests>>
       ELSE \E put \in PutResponses :
              LET i    == Len(completedParts) + 1
                  part == uploadResp.Parts[i]
                  out  == uploadSinglePart(part, upFile.Size, put)
              IN  /\ requests' =
                        IF out.sent
                        THEN Append(requests,
                                 [part |-> part.PartNumber, op |-> "put",
                                  ok |-> out.err = NilErr])
                        ELSE requests
                  /\ completedParts' = Append(completedParts, out.completed)
                  /\ upPc' = IF i = Len(uploadResp.Parts) THEN "complete"
                             ELSE "parts"
                  /\ UNCHANGED upRet
    /\ UNCHANGED <<waitVars, upFile, uploadResp>>

\* one pass of the loop of uploadFileParts (the check for an empty part list
\* on the first), and the return of ProcessFile when the part fails
UploadFileParts ==
    /\ upPc = "parts"
    /\ IF Len(uploadResp.Parts) = 0
       THEN /\ UploadReturn(NilJob,
                   NewSDKError(ErrorTypeUploadError, "failed to upload file",
                               "no upload parts provided"))
            /\ UNCHANGED <<completedParts, requests>>
       ELSE \E put \in PutResponses :
              LET i    == Len(completedParts) + 1
                  part == uploadResp.Parts[i]
                  out  == uploadSinglePart(part, upFile.Size, put)
              IN  /\ requests' =
                        IF out.sent
                        THEN Append(requests,
                                 [part |-> part.PartNumber, op |-> "put",
                                  ok |-> out.err = NilErr])
                        ELSE requests
                  /\ IF out.err # NilErr
                     THEN /\ UploadReturn(NilJob,
                                 NewSDKError(ErrorTypeUploadError,
                                     "failed to upload file", CauseOf(out.err)))
                          /\ UNCHANGED completedParts
                     ELSE /\ completedParts' =
                                 Append(completedParts, out.completed)
                          /\ upPc' = IF i = Len(uploadResp.Parts)
                                     THEN "complete" ELSE "parts"
                          /\ UNCHANGED upRet
    /\ UNCHANGED <<waitVars, upFile, uploadResp>>

\* completeDirectUpload and the return of ProcessFile
CompleteDirectUpload ==
    /\ upPc = "complete"
    /\ LET jobID == IF uploadResp.JobId = "nil" THEN "" ELSE uploadResp.JobId
       IN  IF Len(completedParts) = 0
           THEN /\ UploadReturn(NilJob,
                       NewSDKError(ErrorTypeUploadError,
                           "failed to complete upload",
                           "no upload parts to complete"))
                /\ UNCHANGED requests
           ELSE \/ \E e \in ExecuteErrors(TRUE) :
                     /\ requests' = Append(requests,
                            [part |-> Len(completedParts), op |-> "complete",
                             ok |-> FALSE])
                     /\ UploadReturn(NilJob,
                            NewSDKError(ErrorTypeUploadError,
                                "failed to complete upload",
                                CauseOf(handleAPIError(e,
                                    "failed to complete direct upload"))))
                \/ /\ requests' = Append(requests,
                          [part |-> Len(completedParts), op |-> "complete",
                           ok |-> TRUE])
                   /\ UploadReturn(Job(jobID), NilErr)
    /\ UNCHANGED <<waitVars, upFile, uploadResp, completedParts>>

UploadNext ==
    \/ ValidateAndReadFile
    \/ InitiateDirectUpload
    \/ UploadFileParts
    \/ CompleteDirectUpload

UploadSpec == UploadInit /\ [][UploadNext]_vars

----------------------------------------------------------------------------
(* Concurrent wait calls on one SDK *)

(***************************************************************************)
(* One goroutine per job, each in WaitUntilDoneWithOptions on the same     *)
(* *SDK.  Here every variable of the wait call holds one value per call:   *)
(* pc[i], attempts[i], polled[i] ... belong to call i.  variant is the     *)
(* revision of the SDK all calls run.  The jitter of a sleep is any value  *)
(* rand can return, which covers the generator of math/rand that the calls *)
(* of src/waiter.go share.                                                 *)
(***************************************************************************)

\* the wait calls that run at once
Calls == {1, 2}

\* the WaitOptions of the concurrent calls
ConcOptions ==
    {[InitialDelay |-> 100, MaxDelay |-> 150, Multiplier |-> 20,
      MaxJitter |-> 200, MaxAttempts |-> 2],
     ZeroWaitOptions}

\* the lifecycle states the jobs of the concurrent calls report
ConcStatuses == {"processing", "completed", "failed"}

\* a local variable kept in a field of the SDK, which all calls share
LocalOf_OnSDK(i) == 1

\* where call i keeps attempts and currentDelay: in locals of its own
\* invocation
LocalOf(i) == i

\* ctx of call i has not been cancelled
NotCancelled == [at |-> "never", polls |-> 0]

ConcInit ==
    /\ variant \in Variants
    /\ optsIn \in [Calls -> ConcOptions]
    /\ opts = [i \in Calls |-> applyWaitDefaults(optsIn[i])]
    /\ pc = [i \in Calls |-> "loop"]
    /\ attempts = [i \in Calls |-> 0]
    /\ currentDelay = [i \in Calls |-> opts[i].InitialDelay]
    /\ cancelled = [i \in Calls |-> FALSE]
    /\ cancelPc = [i \in Calls |-> NotCancelled]
    /\ polled = [i \in Calls |-> <<>>]
    /\ statusCalls = [i \in Calls |-> 0]
    /\ resultCalls = [i \in Calls |-> 0]
    /\ sleeps = [i \in Calls |-> <<>>]
    /\ fetchOut = [i \in Calls |-> NoFetch]
    /\ status = [i \in Calls |-> NilStatus]
    /\ ret = [i \in Calls |-> NoFetch]
    /\ UploadIdle

ConcReturn(i, result, err) ==
    /\ pc' = [pc EXCEPT ![i] = "done"]
    /\ ret' = [ret EXCEPT ![i] = [err |-> err, result |-> result]]

\* the owner of the ctx of call i cancels it
ConcCancel(i) ==
    /\ pc[i] \notin {"done", "panic"}
    /\ ~cancelled[i]
    /\ cancelled' = [cancelled EXCEPT ![i] = TRUE]
    /\ cancelPc' = [cancelPc EXCEPT ![i] = [at |-> pc[i], polls |-> statusCalls[i]]]
    /\ UNCHANGED <<uploadVars, status, variant, optsIn, opts, pc, attempts,
                   currentDelay, polled, statusCalls, resultCalls, sleeps,
                   fetchOut, ret>>

ConcCheckMaxAttempts(i) ==
    /\ pc[i] = "loop"
    /\ LET err == checkMaxAttempts(attempts[LocalOf(i)], opts[i].MaxAttempts)
       IN  IF err # NilErr
           THEN /\ ConcReturn(i, NilResult, err)
                /\ UNCHANGED attempts
           ELSE /\ statusCalls[i] < MaxPolls
                /\ pc' = [pc EXCEPT ![i] = "ctx"]
                /\ attempts' = IF variant = "waiter.go"
                               THEN [attempts EXCEPT ![LocalOf(i)] = @ + 1]
                               ELSE attempts
                /\ UNCHANGED ret
    /\ UNCHANGED <<uploadVars, status, variant, optsIn, opts, currentDelay,
                   cancelled, cancelPc, polled, statusCalls, resultCalls,
                   sleeps, fetchOut>>

ConcCheckContext(i) ==
    /\ pc[i] = "ctx"
    /\ LET err == checkContext(variant, cancelled[i])
       IN  IF err # NilErr
           THEN /\ ConcReturn(i, NilResult, err)
                /\ UNCHANGED <<attempts, statusCalls>>
           ELSE /\ pc' = [pc EXCEPT ![i] = "status"]
                /\ attempts' = IF variant = "waiter.go" THEN attempts
                               ELSE [attempts EXCEPT ![LocalOf(i)] = @ + 1]
                /\ statusCalls' = [statusCalls EXCEPT ![i] = @ + 1]
                /\ UNCHANGED ret
    /\ UNCHANGED <<uploadVars, status, variant, optsIn, opts, currentDelay,
                   cancelled, cancelPc, polled, resultCalls, sleeps, fetchOut>>

ConcStatusReturns(i, out) ==
    /\ pc[i] = "status"
    /\ fetchOut' = [fetchOut EXCEPT ![i] = [err |-> out.err, result |-> NilResult]]
    /\ status' = [status EXCEPT ![i] = out.status]
    /\ polled' = [polled EXCEPT ![i] =
                     Append(@, IF out.err # NilErr THEN "#error"
                               ELSE out.status.Status)]
    /\ IF out.err # NilErr
       THEN /\ ConcReturn(i, NilResult, out.err)
            /\ UNCHANGED resultCalls
       ELSE LET todo == StatusSwitch(variant, SwitchOperand(out.status))
            IN  IF todo = "result"
                THEN /\ pc' = [pc EXCEPT ![i] = "result"]
                     /\ resultCalls' = [resultCalls EXCEPT ![i] = @ + 1]
                     /\ UNCHANGED ret
                ELSE IF todo = "failed"
                THEN /\ ConcReturn(i, NilResult, JobFailed)
                     /\ UNCHANGED resultCalls
                ELSE IF todo = "canceled"
                THEN /\ ConcReturn(i, NilResult, JobCanceled(variant))
                     /\ UNCHANGED resultCalls
                ELSE /\ pc' = [pc EXCEPT ![i] = "backoff"]
                     /\ UNCHANGED <<ret, resultCalls>>
    /\ UNCHANGED <<uploadVars, variant, optsIn, opts, attempts, currentDelay,
                   cancelled, cancelPc, statusCalls, sleeps>>

ConcStatusFetch(i) ==
    \/ \E s \in ConcStatuses :
          ConcStatusReturns(i, getJobStatus([NoResponse EXCEPT !.Status = s],
                                            NoCause))
    \/ \E e \in ExecuteErrors(cancelled[i]) :
          ConcStatusReturns(i, getJobStatus(NoResponse, e))

ConcResultReturns(i, out) ==
    /\ pc[i] = "result"
    /\ fetchOut' = [fetchOut EXCEPT ![i] = out]
    /\ ConcReturn(i, out.result, out.err)
    /\ UNCHANGED <<uploadVars, status, variant, optsIn, opts, attempts,
                   currentDelay, cancelled, cancelPc, polled, statusCalls,
                   resultCalls, sleeps>>

ConcResultFetch(i) ==
    \/ ConcResultReturns(i, getJobResult(0, NoCause))
    \/ \E e \in ExecuteErrors(cancelled[i]) :
          ConcResultReturns(i, getJobResult(0, e))

ConcWaitWithBackoff(i) ==
    /\ pc[i] = "backoff"
    /\ IF opts[i].MaxJitter <= 0
       THEN /\ pc' = [pc EXCEPT ![i] = "panic"]
            /\ UNCHANGED sleeps
       ELSE \E jitter \in Jitters(opts[i].MaxJitter) :
              /\ pc' = [pc EXCEPT ![i] = "sleep"]
              /\ sleeps' = [sleeps EXCEPT ![i] = Append(@,
                     [delay |-> currentDelay[LocalOf(i)],
                      sleepDuration |-> currentDelay[LocalOf(i)] + jitter])]
    /\ UNCHANGED <<uploadVars, status, variant, optsIn, opts, attempts,
                   currentDelay, cancelled, cancelPc, polled, statusCalls,
                   resultCalls, fetchOut, ret>>

ConcSleepCancelled(i) ==
    /\ pc[i] = "sleep"
    /\ cancelled[i]
    /\ ConcReturn(i, NilResult, SleepCanceled(variant))
    /\ UNCHANGED <<uploadVars, status, variant, optsIn, opts, attempts,
                   currentDelay, cancelled, cancelPc, polled, statusCalls,
                   resultCalls, sleeps, fetchOut>>

ConcSleepEnds(i) ==
    /\ pc[i] = "sleep"
    /\ \/ ~cancelled[i]
       \/ cancelPc[i].at # "sleep" /\ sleeps[i][Len(sleeps[i])].sleepDuration <= 0
    /\ currentDelay' = [currentDelay EXCEPT ![LocalOf(i)] =
           calculateNextDelay(@, opts[i].Multiplier, opts[i].MaxDelay)]
    /\ pc' = [pc EXCEPT ![i] = "loop"]
    /\ status' = [status EXCEPT ![i] = NilStatus]
    /\ UNCHANGED <<uploadVars, variant, optsIn, opts, attempts, cancelled,
                   cancelPc, polled, statusCalls, resultCalls, sleeps, fetchOut,
                   ret>>

ConcNext ==
    \E i \in Calls :
        \/ ConcCancel(i)
        \/ ConcCheckMaxAttempts(i)
        \/ ConcCheckContext(i)
        \/ ConcStatusFetch(i)
        \/ ConcResultFetch(i)
        \/ ConcWaitWithBackoff(i)
        \/ ConcSleepCancelled(i)
        \/ ConcSleepEnds(i)

ConcSpec == ConcInit /\ [][ConcNext]_vars

----------------------------------------------------------------------------
(* Properties *)

Last(seq) == seq[Len(seq)]

\* the lifecycle states that end a wait, in either spelling
TerminalStates == {"completed", "failed", "error", "canceled", "cancelled"}

MaxAttemptsExceeded ==
    NewSDKError(ErrorTypeTimeout, "maximum polling attempts exceeded", NoCause)

\* C1: a wait call with MaxAttempts = N > 0 that was not cancelled and whose
\* status-fetches all returned a non-terminal state without error returns
\* only after exactly N status-fetch calls and no result-fetch call, and it
\* returns the timeout error "maximum polling attempts exceeded".
C1_ExactlyNPolls ==
    ( /\ pc = "done"
      /\ opts.MaxAttempts > 0
      /\ ~cancelled
      /\ \A i \in 1..Len(polled) : polled[i] \notin TerminalStates \cup {"#error"} )
    => /\ statusCalls = opts.MaxAttempts
       /\ Len(polled) = opts.MaxAttempts
       /\ resultCalls = 0
       /\ ret = [err |-> MaxAttemptsExceeded, result |-> NilResult]
       /\ IsTimeout(ret.err)

C1_Witness ==
    /\ pc = "done"
    /\ opts.MaxAttempts = 2
    /\ ~cancelled
    /\ polled = <<"processing", "">>
    /\ ret.err = MaxAttemptsExceeded

\* C2: a wait call whose context is cancelled before the call starts issues
\* no status-fetch and no result-fetch, never sleeps, and returns a timeout
\* error and no result.
C2_PreCancelled ==
    cancelPc = "before"
    => /\ statusCalls = 0
       /\ resultCalls = 0
       /\ sleeps = <<>>
       /\ pc \in {"loop", "ctx", "done"}
       /\ pc = "done" => /\ IsTimeout(ret.err)
                         /\ ret.err.Cause = CtxErr
                         /\ ret.result = NilResult

C2_Witness ==
    /\ pc = "done"
    /\ cancelPc = "before"
    /\ opts.MaxAttempts = 1
    /\ IsTimeout(ret.err)

\* C3: when the first status-fetch returns "completed", the wait call issues
\* one status-fetch and one result-fetch, does not sleep, and returns what
\* the result-fetch returned.
C3_CompletedFirst ==
    (Len(polled) >= 1 /\ polled[1] = "completed")
    => /\ statusCalls = 1
       /\ resultCalls = 1
       /\ sleeps = <<>>
       /\ pc \in {"result", "done"}
       /\ pc = "done" => ret = fetchOut

C3_Witness ==
    /\ pc = "done"
    /\ polled = <<"completed">>
    /\ ret.err = NilErr
    /\ ret.result = [JobID |-> TheJobID, Status |-> "completed", Credits |-> 7]

\* C4: a status-fetch that returns "failed", "error" or "canceled" ends the
\* wait call at once with a job error: no sleep follows, no further
\* status-fetch and no result-fetch.
C4_JobFailure ==
    \A i \in 1..Len(polled) :
        polled[i] \in {"failed", "error", "canceled"}
        => /\ i = Len(polled)
           /\ pc = "done"
           /\ ret.err.Type = ErrorTypeJobError
           /\ ret.result = NilResult
           /\ resultCalls = 0
           /\ statusCalls = i
           /\ Len(sleeps) = i - 1

\* C5: when ctx is cancelled during the backoff sleep, the sleep is aborted
\* and the wait call returns a timeout error; no status-fetch and no
\* result-fetch is issued after the cancellation.
C5_CancelledSleep ==
    cancelPc = "sleep"
    => /\ pc \in {"sleep", "done"}
       /\ statusCalls = Len(polled)
       /\ Len(sleeps) = Len(polled)
       /\ resultCalls = 0
       /\ pc = "done" => /\ IsTimeout(ret.err)
                         /\ ret.err.Cause = CtxErr
                         /\ ret.result = NilResult

C5_Witness ==
    /\ pc = "done"
    /\ cancelPc = "sleep"
    /\ Len(polled) = 2
    /\ IsTimeout(ret.err)

\* C6: when the k-th status-fetch returns an error, the wait call returns
\* that error and no result, with the type the status-fetch gave it
\* (api_error); k status-fetches were issued, k - 1 sleeps, no result-fetch.
C6_StatusError ==
    (Len(polled) >= 1 /\ Last(polled) = "#error")
    => /\ pc = "done"
       /\ ret = [err |-> fetchOut.err, result |-> NilResult]
       /\ ret.err.Type = ErrorTypeAPIError
       /\ statusCalls = Len(polled)
       /\ Len(sleeps) = Len(polled) - 1
       /\ resultCalls = 0

C6_Witness ==
    /\ pc = "done"
    /\ Len(polled) = 2
    /\ polled[2] = "#error"
    /\ ret.err = handleAPIError(NetErr, "failed to get job status")

\* C7: when the result-fetch returns an error, the wait call returns that
\* error and no result; one result-fetch was issued and no status-fetch after
\* the one that returned "completed".
C7_ResultError ==
    (pc = "done" /\ resultCalls >= 1 /\ fetchOut.err # NilErr)
    => /\ ret = [err |-> fetchOut.err, result |-> NilResult]
       /\ resultCalls = 1
       /\ statusCalls = Len(polled)
       /\ Last(polled) = "completed"

C7_Witness ==
    /\ pc = "done"
    /\ resultCalls = 1
    /\ ret.err = handleAPIError(NetErr, "failed to get job result")

\* C8: the result-fetch is called at most once, only after the last
\* status-fetch returned "completed", and not at all when the wait call
\* returns a timeout error, a job error or the error of a status-fetch.
C8_ResultFetchOnce ==
    /\ resultCalls <= 1
    /\ resultCalls = 1 => Len(polled) >= 1 /\ Last(polled) = "completed"
    /\ pc = "result" => resultCalls = 1
    /\ ( /\ pc = "done"
         /\ \/ ret.err.Type \in {ErrorTypeTimeout, ErrorTypeJobError}
            \/ Len(polled) >= 1 /\ Last(polled) = "#error" )
       => resultCalls = 0

C8_Witness ==
    /\ pc = "done"
    /\ resultCalls = 1
    /\ Len(polled) = 3
    /\ ret.err = NilErr

\* C9 as stated: a wait call ended by the cancellation of ctx (its error
\* carries ctx.Err()) or by the attempt limit returns a timeout error.
C9_Original ==
    ( /\ pc = "done"
      /\ \/ ret.err.Cause = CtxErr
         \/ ret.err.Message = MaxAttemptsExceeded.Message )
    => IsTimeout(ret.err)

\* C9: a wait call that returns from the attempt-limit check, from the
\* context check at the top of the loop or from a cancelled backoff sleep
\* returns a timeout error and no result.
C9_BudgetsAreTimeouts ==
    [][ (pc \in {"loop", "ctx", "sleep"} /\ pc' = "done")
        => /\ IsTimeout(ret'.err)
           /\ ret'.err.Type \notin {ErrorTypeJobError, ErrorTypeAPIError}
           /\ ret'.result = NilResult ]_vars

C9_Witness ==
    /\ pc = "done"
    /\ opts.MaxAttempts = 2
    /\ attempts = 1
    /\ cancelPc = "status"
    /\ ret.err = SleepCanceled(variant)

\* C10 as stated: when ctx is cancelled after a status-fetch has returned
\* "completed", the wait call returns the result unless the result-fetch
\* meets a transport error; the cancellation yields no error.
C10_Original ==
    (pc = "done" /\ cancelPc = "result" /\ ret.err.Cause # NetErr)
    => /\ ret.err = NilErr
       /\ ret.result # NilResult

\* C10: when ctx is cancelled after a status-fetch has returned "completed",
\* the wait call returns what the result-fetch returns, result or error, and
\* never a timeout error.
C10_NoCheckAfterCompleted ==
    (pc = "done" /\ cancelPc = "result")
    => /\ ret = fetchOut
       /\ ~IsTimeout(ret.err)
       /\ ret.err = NilErr => ret.result.Status = "completed"

C10_Witness ==
    /\ pc = "done"
    /\ cancelPc = "result"
    /\ ret.err = NilErr
    /\ ret.result.Credits = 7

\* the four outcomes of a wait call that has returned
OutcomeResult  == ret.err = NilErr /\ ret.result # NilResult
OutcomeTimeout == ret.err.Type = ErrorTypeTimeout /\ ret.result = NilResult
OutcomeJobFailure == ret.err.Type = ErrorTypeJobError /\ ret.result = NilResult
OutcomePropagated ==
    /\ ret.err.Type = ErrorTypeAPIError
    /\ ret.err = fetchOut.err
    /\ ret.result = NilResult

\* C11: a wait call that has returned has exactly one of the four outcomes:
\* a result and no error, a timeout error, a job error, or the error of a
\* collaborator; it has never a result together with an error and never
\* neither of them.
C11_OneOutcome ==
    pc = "done"
    => /\ Cardinality({k \in 1..4 :
                         \/ k = 1 /\ OutcomeResult
                         \/ k = 2 /\ OutcomeTimeout
                         \/ k = 3 /\ OutcomeJobFailure
                         \/ k = 4 /\ OutcomePropagated}) = 1
       /\ (ret.err = NilErr) # (ret.result = NilResult)

C11_Witness ==
    /\ pc = "done"
    /\ OutcomePropagated
    /\ resultCalls = 1
    /\ Len(polled) = 2

\* the terminal lifecycle states as the specification lists them
SpecTerminalStates == {"completed", "failed", "error", "canceled"}

\* C12: after a status-fetch that returned a state outside the terminal set
\* {"completed", "failed", "error", "canceled"}, the wait call goes on to the
\* backoff sleep: it calls no result-fetch, returns no job error, and returns
\* only after the sleep that follows the poll has been entered.
C12_NonTerminalContinues ==
    ( /\ Len(polled) >= 1
      /\ Last(polled) \notin SpecTerminalStates \cup {"#error"}
      /\ pc # "status" )
    => /\ resultCalls = 0
       /\ pc = "done" => /\ ret.err.Type # ErrorTypeJobError
                         /\ Len(sleeps) = Len(polled)

\* C13: WaitUntilDone, which passes WaitOptions{}, and WaitUntilDoneWithOptions
\* with DefaultWaitOptions() run with the same options after the defaulting
\* pass, the defaults; their sleeps have the base delays 1s, 1.5s, 2.25s, ...
\* and neither is ever ended by the attempt limit.
C13_DefaultsEquivalent ==
    optsIn \in {ZeroWaitOptions, DefaultWaitOptions}
    => /\ opts = DefaultWaitOptions
       /\ applyWaitDefaults(ZeroWaitOptions) = applyWaitDefaults(DefaultWaitOptions)
       /\ \A i \in 1..Len(sleeps) :
            sleeps[i].delay = IF i = 1 THEN 1 * Second
                              ELSE Truncate(sleeps[i - 1].delay * 15, 10)
       /\ pc = "done" => ret.err # MaxAttemptsExceeded

C13_Witness ==
    /\ optsIn = ZeroWaitOptions
    /\ pc = "done"
    /\ Len(sleeps) = 2
    /\ sleeps[2].delay = 1500
    /\ ret.err = NilErr

Populated(o) ==
    /\ o.InitialDelay # 0
    /\ o.MaxDelay # 0
    /\ o.Multiplier # 0
    /\ o.MaxJitter # 0

\* C14: the defaulting pass returns a configuration whose four defaulted
\* fields are all set unchanged, and applying it twice gives what applying it
\* once gives.
C14_DefaultsIdempotent ==
    /\ Populated(optsIn) => applyWaitDefaults(optsIn) = optsIn /\ opts = optsIn
    /\ applyWaitDefaults(applyWaitDefaults(optsIn)) = applyWaitDefaults(optsIn)
    /\ Populated(opts)

C14_Witness ==
    /\ pc = "done"
    /\ optsIn = [InitialDelay |-> 100, MaxDelay |-> 150, Multiplier |-> 20,
                 MaxJitter |-> 200, MaxAttempts |-> 2]
    /\ opts = optsIn
    /\ Len(sleeps) = 2

\* C15: the defaulting pass replaces every Multiplier <= 0 by 1.5, so that the
\* delay of a sleep is never computed with a Multiplier that is not positive.
C15_NonPositiveMultiplierDefaulted ==
    (optsIn.Multiplier <= 0 /\ Len(sleeps) >= 2)
    => /\ opts.Multiplier = 15
       /\ sleeps[2].delay = calculateNextDelay(sleeps[1].delay, 15, opts.MaxDelay)

\* C16: while the first status-fetch is issued, a delay of InitialDelay has
\* already been waited.
C16_InitialDelayBeforeFirstPoll ==
    (statusCalls = 1 /\ pc = "status")
    => /\ Len(sleeps) = 1
       /\ sleeps[1].delay = opts.InitialDelay

\* C17: a wait call with MaxAttempts = 0 never returns the error "maximum
\* polling attempts exceeded"; when it returns, ctx was cancelled or the last
\* status-fetch returned a terminal state or an error.
C17_Unlimited ==
    (opts.MaxAttempts = 0 /\ pc = "done")
    => /\ ret.err # MaxAttemptsExceeded
       /\ \/ cancelled /\ IsTimeout(ret.err) /\ ret.err.Cause = CtxErr
          \/ Len(polled) >= 1 /\ Last(polled) \in TerminalStates \cup {"#error"}

C17_Witness ==
    /\ opts.MaxAttempts = 0
    /\ pc = "done"
    /\ statusCalls = MaxPolls
    /\ Len(sleeps) = MaxPolls - 1
    /\ ret.err = JobFailed

\* C18: the base delay of every sleep is at most MaxDelay.
C18_DelayAtMostMaxDelay ==
    \A i \in 1..Len(sleeps) : sleeps[i].delay <= opts.MaxDelay

\* C19: the duration of every sleep is its base delay plus a jitter of
\* [0, MaxJitter): delay <= sleepDuration < delay + MaxJitter.
C19_JitterBound ==
    \A i \in 1..Len(sleeps) :
        /\ sleeps[i].delay <= sleeps[i].sleepDuration
        /\ sleeps[i].sleepDuration < sleeps[i].delay + opts.MaxJitter

C19_Witness ==
    /\ Len(sleeps) = 2
    /\ sleeps[1].sleepDuration = sleeps[1].delay + opts.MaxJitter - 1
    /\ sleeps[2].sleepDuration = sleeps[2].delay
    /\ opts.MaxJitter = 200

\* C20: with a Multiplier of at least 1, the base delays of the successive
\* sleeps of a wait call never decrease.
C20_DelaysNonDecreasing ==
    opts.Multiplier >= 10
    => \A i \in 1..(Len(sleeps) - 1) : sleeps[i].delay <= sleeps[i + 1].delay

\* C21: with InitialDelay 1s, MaxDelay 30s, Multiplier 1.5, MaxJitter 1s and
\* MaxAttempts 0, a wait call whose status-fetches return "processing",
\* "processing", "completed" and whose result-fetch succeeds has issued three
\* status-fetches and one result-fetch, has slept twice with base delays 1s
\* and 1.5s, each plus a jitter of [0, 1s), and returns the result.
C21_ExampleScenario ==
    ( /\ opts = DefaultWaitOptions
      /\ polled = <<"processing", "processing", "completed">>
      /\ pc = "done"
      /\ fetchOut.err = NilErr )
    => /\ statusCalls = 3
       /\ resultCalls = 1
       /\ Len(sleeps) = 2
       /\ sleeps[1].delay = 1 * Second
       /\ sleeps[2].delay = 1500
       /\ \A i \in 1..2 :
            /\ sleeps[i].delay <= sleeps[i].sleepDuration
            /\ sleeps[i].sleepDuration < sleeps[i].delay + 1 * Second
       /\ ret.err = NilErr
       /\ ret.result = fetchOut.result
       /\ ret.result # NilResult

C21_Witness ==
    /\ optsIn = DefaultWaitOptions
    /\ polled = <<"processing", "processing", "completed">>
    /\ pc = "done"
    /\ ~cancelled
    /\ sleeps = <<[delay |-> 1000, sleepDuration |-> 1999],
                  [delay |-> 1500, sleepDuration |-> 1500]>>
    /\ ret.err = NilErr
    /\ ret.result.Credits = 7

\* C22: a wait call with MaxAttempts = N > 0 whose fetches all return and
\* whose sleeps all end eventually returns.
C22_EventuallyReturns ==
    opts.MaxAttempts > 0 => <>(pc = "done")

\* C23: the polls of a wait call are sequential: at most one status-fetch is
\* outstanding, and while one is outstanding every earlier status-fetch has
\* returned and the backoff sleep after each of them has run to its end; no
\* status-fetch is outstanding during a sleep.
C23_SequentialPolls ==
    /\ statusCalls - Len(polled) = (IF pc = "status" THEN 1 ELSE 0)
    /\ pc = "status" => Len(sleeps) = Len(polled)
    /\ pc \in {"backoff", "sleep"} => statusCalls = Len(polled)
    /\ pc = "sleep" => Len(sleeps) = Len(polled)

C23_Witness ==
    /\ pc = "status"
    /\ statusCalls = 3
    /\ Len(polled) = 2
    /\ Len(sleeps) = 2

\* C25: currentDelay is InitialDelay (after defaulting) at the first sleep;
\* the end of a sleep by its timer sets it to the lesser of
\* currentDelay * Multiplier and MaxDelay; no other step changes it.
C25_DelayUpdate ==
    [][ /\ (sleeps = <<>> /\ sleeps' # <<>>)
           => /\ currentDelay = opts.InitialDelay
              /\ sleeps'[1].delay = opts.InitialDelay
        /\ IF pc = "sleep" /\ pc' = "loop"
           THEN LET product == Truncate(currentDelay * opts.Multiplier, 10)
                IN  currentDelay' = IF product < opts.MaxDelay THEN product
                                    ELSE opts.MaxDelay
           ELSE currentDelay' = currentDelay
        /\ sleeps' # sleeps => Last(sleeps').delay = currentDelay ]_vars

C25_Witness ==
    /\ pc = "loop"
    /\ opts.InitialDelay = 100
    /\ Len(sleeps) = 2
    /\ sleeps[1].delay = 100
    /\ sleeps[2].delay = 150
    /\ currentDelay = 150

\* C26: when the wait call returns, its attempt counter equals the number of
\* status-fetch calls it issued (the counter is incremented only after the
\* max-attempts check and the context check have passed).
C26_AttemptsArePolls ==
    pc = "done" => attempts = statusCalls

C28_BudgetAfterFinalSleep ==
    /\ (pc = "done" /\ ret.err = MaxAttemptsExceeded)
       => /\ opts.MaxAttempts > 0
          /\ Len(polled) = opts.MaxAttempts
          /\ Len(sleeps) = opts.MaxAttempts
          /\ cancelPc # "sleep"
          /\ currentDelay = calculateNextDelay(Last(sleeps).delay,
                                               opts.Multiplier, opts.MaxDelay)
    /\ (pc = "done" /\ cancelPc = "sleep" /\ Len(sleeps) = opts.MaxAttempts)
       => /\ ret.err = SleepCanceled(variant)
          /\ ret.err.Message \in {"context cancelled while waiting",
                                  "context canceled while waiting"}

C28_Witness ==
    /\ pc = "done"
    /\ cancelPc = "sleep"
    /\ opts.MaxAttempts = 2
    /\ Len(sleeps) = 2
    /\ ret.err = SleepCanceled(variant)

\* C29: what the wait call does after a status snapshot depends on the
\* lifecycle state of the snapshot alone, whatever its Progress,
\* EstimatedTime and Error are: "completed" leads to the one result-fetch,
\* "failed" and "error" to the job error, the revision's cancelled state to
\* its job error, every other state to the backoff sleep.
C29_StatusStringOnly ==
    status # NilStatus
    => /\ status.Status = Last(polled)
       /\ statusCalls = Len(polled)
       /\ LET todo == StatusSwitch(variant, status.Status)
          IN  /\ todo = "result"
                 => /\ resultCalls = 1
                    /\ pc \in {"result", "done"}
                    /\ pc = "done" => ret = fetchOut
              /\ todo = "failed"
                 => pc = "done" /\ ret.err = JobFailed /\ resultCalls = 0
              /\ todo = "canceled"
                 => /\ pc = "done"
                    /\ ret.err = JobCanceled(variant)
                    /\ resultCalls = 0
              /\ todo = "continue"
                 => /\ resultCalls = 0
                    /\ pc \in {"backoff", "panic", "sleep", "done"}
                    /\ pc = "done" => ret.err = SleepCanceled(variant)

C29_Witness ==
    /\ pc = "sleep"
    /\ Len(polled) = 2
    /\ status.Status = "processing"
    /\ status.Error = "out of memory"
    /\ status.Progress = 50

RECURSIVE AloneDelay(_, _)
AloneDelay(o, k) ==
    IF k = 1 THEN o.InitialDelay
    ELSE calculateNextDelay(AloneDelay(o, k - 1), o.Multiplier, o.MaxDelay)

\* ctx, cancelled at c, is seen cancelled by the context check that follows
\* k status-fetches
SeenByCheck(c, k) == c.at # "never" /\ c.polls <= k

\* ctx, cancelled at c, is seen cancelled by the sleep that follows the k-th
\* status-fetch
SeenBySleep(c, k) ==
    /\ c.at # "never"
    /\ \/ c.polls < k
       \/ c.polls = k /\ c.at \in {"status", "backoff", "sleep"}

\* A wait call of revision v with options o (positive delays) that runs
\* alone, is served the status outcomes outs, the fetch result out, and has
\* its ctx cancelled at c: the polls it issues, the sleeps it enters, and
\* the error it returns.  k status-fetches have returned.
RECURSIVE Alone(_, _, _, _, _, _)
Alone(v, o, outs, out, c, k) ==
    IF checkMaxAttempts(k, o.MaxAttempts) # NilErr
    THEN [err |-> checkMaxAttempts(k, o.MaxAttempts), polls |-> k, slept |-> k]
    ELSE IF SeenByCheck(c, k)
    THEN [err |-> checkContext(v, TRUE), polls |-> k, slept |-> k]
    ELSE IF k + 1 > Len(outs)
    THEN [err |-> NilErr, polls |-> k + 1, slept |-> k]
    ELSE IF outs[k + 1] = "#error" \/ StatusSwitch(v, outs[k + 1]) = "result"
    THEN [err |-> out.err, polls |-> k + 1, slept |-> k]
    ELSE IF StatusSwitch(v, outs[k + 1]) = "failed"
    THEN [err |-> JobFailed, polls |-> k + 1, slept |-> k]
    ELSE IF StatusSwitch(v, outs[k + 1]) = "canceled"
    THEN [err |-> JobCanceled(v), polls |-> k + 1, slept |-> k]
    ELSE IF SeenBySleep(c, k + 1)
    THEN [err |-> SleepCanceled(v), polls |-> k + 1, slept |-> k + 1]
    ELSE Alone(v, o, outs, out, c, k + 1)

\* C24: of wait calls that run concurrently on one SDK, each issues the
\* number of status-fetches, sleeps with the base delays and returns the
\* error that it would when running alone with its options, its status
\* outcomes and its cancellation; its attempt counter counts its own
\* iterations only.
C24_CallsIndependent ==
    \A i \in Calls :
        /\ \A k \in 1..Len(sleeps[i]) :
              sleeps[i][k].delay = AloneDelay(opts[i], k)
        /\ attempts[i] \in {statusCalls[i], statusCalls[i] + 1}
        /\ pc[i] = "done"
           => LET alone == Alone(variant, opts[i], polled[i], fetchOut[i],
                                 cancelPc[i], 0)
              IN  /\ statusCalls[i] = alone.polls
                  /\ Len(sleeps[i]) = alone.slept
                  /\ ret[i].err = alone.err
                  /\ ret[i].result = IF resultCalls[i] = 1
                                     THEN fetchOut[i].result ELSE NilResult

C24_Witness ==
    /\ pc = [i \in Calls |-> "done"]
    /\ opts[1].MaxAttempts = 2
    /\ ret[1].err = MaxAttemptsExceeded
    /\ statusCalls[1] = 2
    /\ opts[2].MaxAttempts = 0
    /\ ret[2].err = NilErr
    /\ statusCalls[2] = 3
    /\ sleeps[2][2].delay = 1500
    /\ sleeps[1][2].delay = 150

====
